---- MODULE Spec2Model ----
(***************************************************************************)
(* Model of the chem-sim narration core (src/src/narration.js), of the      *)
(* history store (src/src/history.js) and of the inspector's state          *)
(* (src/src/inspector.js).                                                  *)
(*                                                                         *)
(* Reals are fixed-point integers in thousandths (25 degrees = 25000,      *)
(* extent 0.8 = 800, 0.05 = 50); timestamps are milliseconds.  A JS object *)
(* is a record; a property the object does not have is a field the record  *)
(* does not have.  A string built by concatenation is the sequence of its  *)
(* fragments, a list of strings a sequence of such sequences.  A tile       *)
(* object of the world is known by its identity, an index into objs.  Of   *)
(* the inspector's DOM only the values written to the stats panel are      *)
(* state here; the signatures that guard the sparkline and the species     *)
(* lists are read by no other operation and are left out.                  *)
(***************************************************************************)
EXTENDS Integers, Sequences, FiniteSets, TLC

VARIABLES
    tile,       \* the tile object handed to the narrator
    backref,    \* backref[i]: entry i of the pool has its _tile property set (to tile)
    lines,      \* what the last narrateTile(tile) call returned, <<>> before any call
    prevLines,  \* what the narrateTile(tile) call before that returned
    described,  \* the last public describeReactionEntry call, <<>> before any:
                \* [entry, sentence, first], first what the first of the consecutive
                \* calls on that entry returned
    ret,        \* the last direct application of a helper: <<>> or [op, ..., value]
    pool,       \* the activity entry objects; an entry is known by its index
    objs,       \* the tile objects ever created, in the world or not
    world,      \* world.tile(x, y): the tile object at each coordinate, or NoTile
    historySubscribers, \* history.js: the set of subscribed tile objects
    now,        \* the argument of the last recordSubscribedHistories call
    focus,      \* inspector.focus: <<>> (null) or the coordinates <<x, y>>
    lastTileKey,        \* inspector.lastTileKey: <<>> (null) or the coordinates
    lastStats,  \* inspector.lastStats: <<>> (null) or [temp, pH, moisture, pressure]
    lastReactionsSig,   \* inspector.lastReactionsSig
    shown       \* the tile values the texts of the stats panel were formatted from

\* the narrator's side, the world and the store, the inspector
nvars == <<tile, backref, lines, prevLines, described, ret>>
wvars == <<objs, world, historySubscribers, now>>
ivars == <<focus, lastTileKey, lastStats, lastReactionsSig, shown>>

vars == <<nvars, pool, wvars, ivars>>

\* ---------------------------------------------------------------- bounds

\* longest activity list of a tile narrated over and over
MaxActs == 4
\* longest activity list of a tile when both calls of the narrator are mixed
MaxMixedActs == 2
\* longest history handed to trendOf on its own
MaxHist == 4
\* most samples a history holds when recordSubscribedHistories is called
MaxSamples == 3
\* most tile objects the host ever creates
MaxObjs == 4
\* most simulation steps that move a tile's stats
MaxDrift == 3

\* ---------------------------------------------------------------- helpers

Min(a, b) == IF a < b THEN a ELSE b

\* obj[field] ?? dflt, obj[field] || dflt for a number-valued property
Prop(obj, field, dflt) == IF field \in DOMAIN obj THEN obj[field] ELSE dflt

Has(obj, field) == field \in DOMAIN obj

\* Array.prototype.sort((a,b) => b.k - a.k) on a list of [k, v] pairs: stable,
\* descending by k
RECURSIVE InsertDesc(_, _)
InsertDesc(sorted, x) ==
    IF sorted = <<>> THEN <<x>>
    ELSE IF Head(sorted).k >= x.k
         THEN <<Head(sorted)>> \o InsertDesc(Tail(sorted), x)
         ELSE <<x>> \o sorted

RECURSIVE SortDesc(_)
SortDesc(s) ==
    IF s = <<>> THEN <<>>
    ELSE InsertDesc(SortDesc(SubSeq(s, 1, Len(s) - 1)), s[Len(s)])

\* Array.prototype.slice(0, n)
Slice0(s, n) == SubSeq(s, 1, Min(n, Len(s)))

\* Array.prototype.join(sep) of a list of strings, each a sequence of fragments
RECURSIVE Join(_, _)
Join(s, sep) ==
    IF s = <<>> THEN <<>>
    ELSE IF Len(s) = 1 THEN s[1]
    ELSE s[1] \o <<sep>> \o Join(Tail(s), sep)

\* [...new Set(list)]: first occurrences, in order
RECURSIVE Distinct(_)
Distinct(s) ==
    IF s = <<>> THEN <<>>
    ELSE LET init == Distinct(SubSeq(s, 1, Len(s) - 1))
             x == s[Len(s)]
         IN IF \E i \in 1..Len(init) : init[i] = x THEN init ELSE Append(init, x)

\* ---------------------------------------------------------------- fixtures

\* the material registry handed to createNarrator
materialRegistry ==
    ("HCl" :> [corrosivity |-> "acid"]) @@
    ("NaOH" :> [displayName |-> "sodium hydroxide", corrosivity |-> "base"]) @@
    ("H2O" :> [displayName |-> "water", phaseSTP |-> "l"]) @@
    ("NaCl" :> [phaseSTP |-> "aq"]) @@
    ("AgCl(s)" :> [color |-> "white"]) @@
    ("H2" :> [displayName |-> "hydrogen", phaseSTP |-> "g", flammability |-> "high"])

\* the reaction catalogue handed to createNarrator
reactions == <<
    [id |-> "neutralization", equation |-> "HCl + NaOH -> NaCl + H2O",
     reactants |-> <<"HCl", "NaOH">>, tags |-> <<>>, effects |-> <<>>],
    [id |-> "acid_carbonate", equation |-> "2HCl + CaCO3 -> CaCl2 + H2O + CO2",
     reactants |-> <<"HCl", "CaCO3">>, tags |-> <<"exothermic_mild", "gas_evolution">>,
     effects |-> <<>>],
    [id |-> "thermal_decay",
     reactants |-> <<>>, tags |-> <<>>,
     effects |-> [heatPerUnit |-> 5000, pressurePulse |-> TRUE]],
    [id |-> "precipitation", equation |-> "AgNO3 + NaCl -> AgCl + NaNO3",
     reactants |-> <<"AgNO3", "NaCl">>, tags |-> <<>>, effects |-> <<>>] >>

\* the activity entries as the simulation hands them out
InitialPool == <<
    [id |-> "neutralization", extent |-> 800,
     products |-> <<[id |-> "NaCl", qty |-> 1000], [id |-> "H2O", qty |-> 2000]>>],
    [id |-> "acid_carbonate", extent |-> 800, limiter |-> "HCl",
     products |-> <<[id |-> "H2O", qty |-> 1000], [id |-> "NaCl", qty |-> 0]>>],
    [id |-> "thermal_decay", extent |-> 1200, limiter |-> "rate",
     products |-> <<[id |-> "H2O", qty |-> 2000], [id |-> "CO2_g", qty |-> 3000]>>],
    [id |-> "precipitation", extent |-> 0,
     products |-> <<[id |-> "AgCl(s)", qty |-> 1000]>>],
    [id |-> "ghost", extent |-> 900,
     products |-> <<[id |-> "H2O", qty |-> 1000]>>],
    [id |-> "neutralization", extent |-> 305, limiter |-> "NaOH", heat |-> TRUE,
     products |-> <<[id |-> "H2O", qty |-> 500]>>] >>

\* the activity entries as they are now
Pool == pool

\* a falsy element of an activity list (null)
Null == 0

Entries == 1..Len(Pool)

\* ---------------------------------------------------------------- trends

\* lastN without the cut to the last n samples
lastN_whole(history, n) == IF Len(history) < 2 THEN <<>> ELSE history

\* the last min(n, length) samples, or <<>> (null) for fewer than 2 samples
lastN(history, n) ==
    IF Len(history) < 2 THEN <<>>
    ELSE LET k == Min(n, Len(history))
         IN SubSeq(history, Len(history) - k + 1, Len(history))

\* slope = (dv/1000) / (dt/1000) per second, compared with eps/1000
trendOf(history, field, eps) ==
    LET h == lastN(history, 3)
    IN IF Len(h) < 2 THEN "flat"
       ELSE LET first == h[1]
                last == h[Len(h)]
                dt == last.t - first.t
                dv == Prop(last, field, 0) - Prop(first, field, 0)
            IN IF dt <= 0 THEN "flat"
               ELSE IF dv * 1000 > eps * dt THEN "up"
               ELSE IF dv * 1000 < (0 - eps) * dt THEN "down"
               ELSE "flat"

trendLabelTemp(history) ==
    LET tr == trendOf(history, "temp", 50)
    IN IF tr = "up" THEN " (heating up)"
       ELSE IF tr = "down" THEN " (cooling)"
       ELSE ""

\* "" stands for null
trendLabelPressure(history) ==
    LET tr == trendOf(history, "pressure", 20)
    IN IF tr = "up" THEN "pressure building"
       ELSE IF tr = "down" THEN "venting"
       ELSE ""

trendLabelPH(history) ==
    LET h == lastN(history, 3)
    IN IF Len(h) < 2 THEN ""
       ELSE IF ~Has(h[1], "pH") \/ ~Has(h[Len(h)], "pH") THEN ""
       ELSE LET first == h[1].pH
                last == h[Len(h)].pH
                delta == last - first
            IN IF delta < 20 /\ delta > -20 THEN ""
               ELSE IF last > 6800 /\ last < 7200 THEN "neutralizing"
               ELSE IF delta > 0 THEN "becoming more basic"
               ELSE "becoming more acidic"

trendLabelGas(history) ==
    LET tr == trendOf(history, "gasSum", 10)
    IN IF tr = "up" THEN "gas building"
       ELSE IF tr = "down" THEN "gas dissipating"
       ELSE ""

\* ---------------------------------------------------------------- narrator

\* Object.fromEntries(reactions.map(r => [r.id, r])): the last reaction of an id wins
rxIndex ==
    [id \in {reactions[k].id : k \in 1..Len(reactions)} |->
        LET k == CHOOSE k \in 1..Len(reactions) :
                    /\ reactions[k].id = id
                    /\ \A j \in (k + 1)..Len(reactions) : reactions[j].id # id
        IN reactions[k]]

\* materialRegistry.get(id), <<>> when the registry has no such material
Material(id) == IF id \in DOMAIN materialRegistry THEN materialRegistry[id] ELSE <<>>

\* String(t).includes(key), for the tags and keys of the catalogue
Includes(t, key) == t = key

\* String(t).startsWith('exothermic'), for the tags of the catalogue
StartsWithExothermic(t) == t \in {"exothermic", "exothermic_mild", "exothermic_strong"}

\* /(_g|\(g\))$/.test(id), for the identifiers of the fixtures
GasSuffix(id) == id \in {"CO2_g"}

\* /\(s\)$/.test(id), for the identifiers of the fixtures
SolidSuffix(id) == id \in {"AgCl(s)"}

\* id.replace(/_g$|_l$|\(.*?\)|_/g, s => s === '_' ? ' ' : '').trim(), for the
\* identifiers of the fixtures
StripId(id) ==
    CASE id = "CO2_g" -> "CO2"
      [] id = "AgCl(s)" -> "AgCl"
      [] id = "thermal_decay" -> "thermal decay"
      [] id = "acid_carbonate" -> "acid carbonate"
      [] OTHER -> id

tag(rx, key) == \E k \in 1..Len(rx.tags) : Includes(rx.tags[k], key)

\* TRUE when some tag starts with 'exothermic' (the code returns that tag or null)
exoLevel(rx) == \E k \in 1..Len(rx.tags) : StartsWithExothermic(rx.tags[k])

niceName(id) ==
    LET m == Material(id)
    IN IF Has(m, "displayName") THEN m.displayName ELSE StripId(id)

\* the hazard tags as a set (the code only asks whether one is included)
hazardsFor(id) ==
    LET m == Material(id)
        own == Prop(m, "hazardTags", {})
        f == IF Prop(m, "flammability", "") = "high" THEN {"flammable"} ELSE {}
        c == IF Prop(m, "corrosivity", "") \in {"base", "acid"} THEN {"caustic"} ELSE {}
        o == IF Prop(m, "corrosivity", "") = "oxidizer" \/ "oxidizer" \in own
             THEN {"oxidizer"} ELSE {}
        x == IF Prop(m, "toxicity", "") = "high" THEN {"toxic"} ELSE {}
    IN IF m = <<>> THEN {} ELSE own \cup f \cup c \cup o \cup x

\* "" stands for null
colorWord(id) == Prop(Material(id), "color", "")

\* rx?.phases?.[id] || materialRegistry.get(id)?.phaseSTP
PhaseOf(id, rx) ==
    LET phases == Prop(rx, "phases", <<>>)
    IN IF id \in DOMAIN phases THEN phases[id] ELSE Prop(Material(id), "phaseSTP", "")

isGasProduct(id, rx) == PhaseOf(id, rx) = "g" \/ GasSuffix(id)

isSolidProduct(id, rx) == PhaseOf(id, rx) = "s" \/ SolidSuffix(id)

isBasicProduct(id) == Prop(Material(id), "corrosivity", "") = "base"

isAcidicProduct(id) == Prop(Material(id), "corrosivity", "") = "acid"

\* tile._activity || []: a list of pool indices, Null for a falsy element
Activity(tl) == Prop(tl, "_activity", <<>>)

HasRx(id) == id \in DOMAIN rxIndex

\* e.products || []
Products(e) == Prop(e, "products", <<>>)

\* the predicates handed to pickActivity by becauseTemp, becausePH (dir up, dir
\* down), becauseGas and becausePressure; "" is no predicate
Predicate(name, e, rx) ==
    LET fx == Prop(rx, "effects", <<>>)
        prods == Products(e)
        someGas == \E k \in 1..Len(prods) : isGasProduct(prods[k].id, rx)
    IN CASE name = "temp" ->
                \/ Prop(e, "heat", FALSE)
                \/ Prop(fx, "heatPerUnit", 0) > 0
                \/ \E k \in 1..Len(rx.tags) : StartsWithExothermic(rx.tags[k])
         [] name = "pH up" -> \E k \in 1..Len(prods) : isBasicProduct(prods[k].id)
         [] name = "pH down" -> \E k \in 1..Len(prods) : isAcidicProduct(prods[k].id)
         [] name = "gas" ->
                Prop(fx, "emitGas", FALSE) \/ someGas \/ tag(rx, "gas_evolution")
         [] name = "pressure" ->
                Prop(fx, "pressurePulse", FALSE) \/ someGas \/ tag(rx, "gas_evolution")
         [] OTHER -> TRUE

\* pickActivity with score >= bestScore: the last of equal extents wins
pickActivity_lastWins(tl, predicate) ==
    LET acts == Activity(tl)
        scan[k \in 0..Len(acts)] ==
            IF k = 0 THEN Null
            ELSE LET best == scan[k - 1]
                     i == acts[k]
                 IN IF i = Null THEN best
                    ELSE IF Prop(Pool[i], "extent", 0) <= 0 THEN best
                    ELSE IF ~HasRx(Pool[i].id) THEN best
                    ELSE IF predicate # "" /\ ~Predicate(predicate, Pool[i], rxIndex[Pool[i].id])
                         THEN best
                    ELSE IF best = Null \/ Prop(Pool[i], "extent", 0) >= Prop(Pool[best], "extent", 0)
                         THEN i
                    ELSE best
    IN scan[Len(acts)]

\* the entry (pool index) of the best { entry, rx }, Null for null
pickActivity(tl, predicate) ==
    LET acts == Activity(tl)
        scan[k \in 0..Len(acts)] ==
            IF k = 0 THEN Null
            ELSE LET best == scan[k - 1]
                     i == acts[k]
                 IN IF i = Null THEN best
                    ELSE IF Prop(Pool[i], "extent", 0) <= 0 THEN best
                    ELSE IF ~HasRx(Pool[i].id) THEN best
                    ELSE IF predicate # "" /\ ~Predicate(predicate, Pool[i], rxIndex[Pool[i].id])
                         THEN best
                    ELSE IF best = Null \/ Prop(Pool[i], "extent", 0) > Prop(Pool[best], "extent", 0)
                         THEN i
                    ELSE best
    IN scan[Len(acts)]

\* <<>> stands for null
becauseTemp(tl) ==
    LET hit == pickActivity(tl, "temp")
    IN IF hit = Null THEN <<>>
       ELSE LET rx == rxIndex[Pool[hit].id]
                rs == Prop(rx, "reactants", <<>>)
                reactants == Slice0([k \in 1..Len(rs) |-> niceName(rs[k])], 2)
                head == IF Len(reactants) = 2 THEN <<reactants[1], " and ", reactants[2]>>
                        ELSE IF Len(reactants) = 1 THEN <<reactants[1]>>
                        ELSE <<niceName(rx.id)>>
            IN <<"temperature rising because ">> \o head \o <<" react exothermically">>

becausePH(tl, dir) ==
    LET hit == pickActivity(tl, IF dir = "up" THEN "pH up" ELSE "pH down")
    IN IF hit = Null THEN <<>>
       ELSE LET prods == SelectSeq(Products(Pool[hit]),
                            LAMBDA p : IF dir = "up" THEN isBasicProduct(p.id)
                                       ELSE isAcidicProduct(p.id))
                label == IF Len(prods) > 0 THEN niceName(prods[1].id) ELSE "products"
            IN IF dir = "up"
               THEN <<"pH increasing because ", label, " (basic) is forming">>
               ELSE <<"pH decreasing because ", label, " (acidic) is forming">>

\* the loop of becauseGas and becausePressure: the gas product of the greatest
\* positive quantity, "" when there is none
TopGasId(products, rx) ==
    LET scan[k \in 0..Len(products)] ==
            IF k = 0 THEN [id |-> "", qty |-> 0]
            ELSE LET acc == scan[k - 1]
                     p == products[k]
                 IN IF isGasProduct(p.id, rx) /\ Prop(p, "qty", 0) > acc.qty
                    THEN [id |-> p.id, qty |-> Prop(p, "qty", 0)]
                    ELSE acc
    IN scan[Len(products)].id

HazardFlair(id) ==
    LET hz == IF id = "" THEN {} ELSE hazardsFor(id)
    IN IF "flammable" \in hz THEN " (flammable)"
       ELSE IF "toxic" \in hz THEN " (toxic)"
       ELSE IF "oxidizer" \in hz THEN " (oxidizer)"
       ELSE ""

becauseGas(tl) ==
    LET hit == pickActivity(tl, "gas")
    IN IF hit = Null THEN <<>>
       ELSE LET gasId == TopGasId(Products(Pool[hit]), rxIndex[Pool[hit].id])
                gasName == IF gasId # "" THEN niceName(gasId) ELSE "gas"
            IN <<"gas increasing because ", gasName, HazardFlair(gasId), " is being released">>

becausePressure(tl) ==
    LET hit == pickActivity(tl, "pressure")
    IN IF hit = Null THEN <<>>
       ELSE LET gasId == TopGasId(Products(Pool[hit]), rxIndex[Pool[hit].id])
                gasName == IF gasId # "" THEN niceName(gasId) ELSE "gas"
            IN <<"pressure building because ", gasName, " is accumulating">>

describeLimiter(e) ==
    IF ~Has(e, "limiter") \/ e.limiter = "rate" THEN <<"rate-limited">>
    ELSE <<"limited by ", niceName(e.limiter)>>

\* the names of the (up to) 3 products of the greatest quantity, joined by ', ';
\* <<>> stands for null
describeProducts(products, rx) ==
    IF Len(products) = 0 THEN <<>>
    ELSE LET sorted == SortDesc([k \in 1..Len(products) |->
                                    [k |-> Prop(products[k], "qty", 0), v |-> products[k]]])
             top == Slice0(sorted, 3)
         IN Join([k \in 1..Len(top) |-> <<niceName(top[k].v.id)>>], ", ")

describeHeat(rx, fx) ==
    IF exoLevel(rx) \/ Prop(fx, "heatPerUnit", 0) > 0 THEN <<"heating the tile">> ELSE <<>>

\* describeGas taking any gas of the tile above 0, not above 0.05
describeGas_anyTileGas(rx, fx, products, tl) ==
    LET rxSaysGas == tag(rx, "gas_evolution")
        fxAddsGas == Prop(fx, "emitGas", FALSE)
        scan[k \in 0..Len(products)] ==
            IF k = 0 THEN [id |-> "", qty |-> 0]
            ELSE LET acc == scan[k - 1]
                     p == products[k]
                 IN IF isGasProduct(p.id, rx) /\ (acc.id = "" \/ Prop(p, "qty", 0) > acc.qty)
                    THEN [id |-> p.id, qty |-> Prop(p, "qty", 0)]
                    ELSE acc
        productGas == scan[Len(products)].id
        productGasQty == scan[Len(products)].qty
        present == SelectSeq(Prop(tl, "gas", <<>>), LAMBDA g : g.v > 0)
        ranked == SortDesc([k \in 1..Len(present) |-> [k |-> present[k].v, v |-> present[k]]])
        fromTile == IF Len(ranked) > 0
                       /\ (productGas = "" \/ ranked[1].v.v * 1000 > productGasQty * 1250)
                    THEN ranked[1].v.id ELSE ""
        label == IF fromTile # "" THEN fromTile ELSE productGas
    IN IF label # "" THEN <<"releasing ", niceName(label), HazardFlair(label)>>
       ELSE IF rxSaysGas \/ fxAddsGas \/ productGas # "" THEN <<"releasing gas">>
       ELSE <<>>

\* <<>> stands for null; tl is the tile the entry refers back to, <<>> for null
describeGas(rx, fx, products, tl) ==
    LET rxSaysGas == tag(rx, "gas_evolution")
        fxAddsGas == Prop(fx, "emitGas", FALSE)
        scan[k \in 0..Len(products)] ==
            IF k = 0 THEN [id |-> "", qty |-> 0]
            ELSE LET acc == scan[k - 1]
                     p == products[k]
                 IN IF isGasProduct(p.id, rx) /\ (acc.id = "" \/ Prop(p, "qty", 0) > acc.qty)
                    THEN [id |-> p.id, qty |-> Prop(p, "qty", 0)]
                    ELSE acc
        productGas == scan[Len(products)].id
        productGasQty == scan[Len(products)].qty
        present == SelectSeq(Prop(tl, "gas", <<>>), LAMBDA g : g.v > 50)
        ranked == SortDesc([k \in 1..Len(present) |-> [k |-> present[k].v, v |-> present[k]]])
        fromTile == IF Len(ranked) > 0
                       /\ (productGas = "" \/ ranked[1].v.v * 1000 > productGasQty * 1250)
                    THEN ranked[1].v.id ELSE ""
        label == IF fromTile # "" THEN fromTile ELSE productGas
    IN IF label # "" THEN <<"releasing ", niceName(label), HazardFlair(label)>>
       ELSE IF rxSaysGas \/ fxAddsGas \/ productGas # "" THEN <<"releasing gas">>
       ELSE <<>>

\* rx.id.replace(/_/g, ' '), for the identifiers of the catalogue
UnderscoresToSpaces(id) ==
    CASE id = "thermal_decay" -> "thermal decay"
      [] id = "acid_carbonate" -> "acid carbonate"
      [] OTHER -> id

reactionLabel(rx) == IF Has(rx, "equation") THEN rx.equation ELSE UnderscoresToSpaces(rx.id)

actorPhrase(rx) ==
    LET rcts == Prop(rx, "reactants", <<>>)
        Some(P(_)) == \E k \in 1..Len(rcts) : P(rcts[k])
        hasWater == Some(LAMBDA id : id \in {"H2O", "H2O_g", "H2O(g)", "H2O(l)"})
        hasAcid == Some(LAMBDA id : \/ Prop(Material(id), "corrosivity", "") = "acid"
                                    \/ "acid" \in Prop(Material(id), "hazardTags", {}))
        hasBase == Some(LAMBDA id : \/ Prop(Material(id), "corrosivity", "") = "base"
                                    \/ "base" \in Prop(Material(id), "hazardTags", {}))
        hasMetal == Some(LAMBDA id : /\ Material(id) # <<>>
                                     /\ Prop(Material(id), "phaseSTP", "") = "s"
                                     /\ "water_reactive" \in Prop(Material(id), "hazardTags", {}))
    IN IF hasAcid /\ hasBase THEN "The acid is neutralizing the base"
       ELSE IF hasMetal /\ hasWater THEN "The metal is reacting with water"
       ELSE IF hasAcid THEN "The acid is reacting with a reactant"
       ELSE IF hasBase THEN "The base is reacting with a reactant"
       ELSE "A reaction is proceeding"

\* Math.round(Math.min(1, extent || 0) * 100)
Intensity(e) == (Min(1000, Prop(e, "extent", 0)) + 5) \div 10

\* the sentence for entry i whose _tile property is ownTile (<<>> for none);
\* <<>> stands for null
describeReactionEntry(i, ownTile) ==
    LET entry == Pool[i]
    IN IF ~HasRx(entry.id) THEN <<>>
       ELSE
        LET rx == rxIndex[entry.id]
            fx == Prop(rx, "effects", <<>>)
            products == Products(entry)
            heat == describeHeat(rx, fx)
            gas == describeGas(rx, fx, products, ownTile)
            prods == describeProducts(products, rx)
            solids == SelectSeq(products, LAMBDA p : isSolidProduct(p.id, rx))
            gases == SelectSeq(products, LAMBDA p : isGasProduct(p.id, rx))
            forming ==
                IF Len(solids) > 0
                THEN IF colorWord(solids[1].id) # ""
                     THEN <<"forming a ", colorWord(solids[1].id), " precipitate (",
                            niceName(solids[1].id), ")">>
                     ELSE <<"forming a precipitate (", niceName(solids[1].id), ")">>
                ELSE <<"forming ">> \o prods
            gasClause ==
                IF prods # <<>> /\ Len(gases) > 0 /\ gas = <<"releasing gas">>
                THEN <<"releasing ", niceName(gases[1].id)>>
                ELSE gas
            consequences ==
                (IF heat # <<>> THEN <<heat>> ELSE <<>>)
                \o (IF gas # <<>> THEN <<gasClause>> ELSE <<>>)
                \o (IF prods # <<>> /\ gas = <<>> THEN <<forming>> ELSE <<>>)
            consText == IF Len(consequences) > 0
                        THEN <<", ">> \o Join(consequences, " and ") ELSE <<>>
        IN <<actorPhrase(rx)>> \o consText
           \o <<". Intensity ", ToString(Intensity(entry)), "%, ">>
           \o describeLimiter(entry) \o <<".">>

\* the productions Map as the list of its [id, sources] pairs in insertion order,
\* sources the contributing entries in the order they were pushed
Productions(tl) ==
    LET acts == Activity(tl)
        \* the map after the first n products of entry i
        inner(map, i) ==
            LET prods == Products(Pool[i])
                step[n \in 0..Len(prods)] ==
                    IF n = 0 THEN map
                    ELSE LET m == step[n - 1]
                             prod == prods[n]
                         IN IF Prop(prod, "qty", 0) <= 0 THEN m
                            ELSE IF \E j \in 1..Len(m) : m[j].id = prod.id
                                 THEN [j \in 1..Len(m) |->
                                        IF m[j].id = prod.id
                                        THEN [m[j] EXCEPT !.sources = Append(@, i)]
                                        ELSE m[j]]
                                 ELSE Append(m, [id |-> prod.id, sources |-> <<i>>])
            IN step[Len(prods)]
        outer[k \in 0..Len(acts)] ==
            IF k = 0 THEN <<>>
            ELSE LET i == acts[k]
                 IN IF i = Null THEN outer[k - 1]
                    ELSE IF Prop(Pool[i], "extent", 0) <= 0 THEN outer[k - 1]
                    ELSE IF ~HasRx(Pool[i].id) THEN outer[k - 1]
                    ELSE inner(outer[k - 1], i)
    IN outer[Len(acts)]

\* ProductionLine taking limiter and reactants from the last contributor
ProductionLine_lastSource(prodId, sources) ==
    LET sourceLabels == Distinct([k \in 1..Len(sources) |->
                                    reactionLabel(rxIndex[Pool[sources[k]].id])])
        entry == Pool[sources[Len(sources)]]
        rx == rxIndex[entry.id]
        limiter == IF Has(entry, "limiter") /\ entry.limiter # "rate"
                   THEN niceName(entry.limiter) ELSE ""
        rs == Prop(rx, "reactants", <<>>)
        reactants == Join([k \in 1..Len(rs) |-> <<niceName(rs[k])>>], ", ")
        increase == IF limiter # "" THEN <<"adding more ", limiter>>
                    ELSE IF Len(rs) > 0 THEN <<"supplying more ">> \o reactants
                    ELSE <<"supplying more reactants">>
        decrease == IF Len(rs) > 0 THEN <<"removing ">> \o reactants
                    ELSE <<"reducing the available reactants">>
    IN <<niceName(prodId), " is being produced by ">>
       \o Join([k \in 1..Len(sourceLabels) |-> <<sourceLabels[k]>>], " and ")
       \o <<". Increase production by ">> \o increase
       \o <<". Reduce it by ">> \o decrease \o <<".">>

\* one production-insight line
ProductionLine(prodId, sources) ==
    LET sourceLabels == Distinct([k \in 1..Len(sources) |->
                                    reactionLabel(rxIndex[Pool[sources[k]].id])])
        entry == Pool[sources[1]]
        rx == rxIndex[entry.id]
        limiter == IF Has(entry, "limiter") /\ entry.limiter # "rate"
                   THEN niceName(entry.limiter) ELSE ""
        rs == Prop(rx, "reactants", <<>>)
        reactants == Join([k \in 1..Len(rs) |-> <<niceName(rs[k])>>], ", ")
        increase == IF limiter # "" THEN <<"adding more ", limiter>>
                    ELSE IF Len(rs) > 0 THEN <<"supplying more ">> \o reactants
                    ELSE <<"supplying more reactants">>
        decrease == IF Len(rs) > 0 THEN <<"removing ">> \o reactants
                    ELSE <<"reducing the available reactants">>
    IN <<niceName(prodId), " is being produced by ">>
       \o Join([k \in 1..Len(sourceLabels) |-> <<sourceLabels[k]>>], " and ")
       \o <<". Increase production by ">> \o increase
       \o <<". Reduce it by ">> \o decrease \o <<".">>

buildProductionInsights(tl) ==
    LET productions == Productions(tl)
    IN [k \in 1..Len(productions) |->
            ProductionLine(productions[k].id, productions[k].sources)]

\* the sum of a list of [id, v] pairs' values
RECURSIVE SumValues(_)
SumValues(pairs) == IF pairs = <<>> THEN 0 ELSE Head(pairs).v + SumValues(Tail(pairs))

\* the tile's temperature word
TempWord(tl) ==
    IF Has(tl, "temp") /\ tl.temp >= 120000 THEN "very hot"
    ELSE IF Has(tl, "temp") /\ tl.temp >= 60000 THEN "hot"
    ELSE IF Has(tl, "temp") /\ tl.temp <= 0 THEN "freezing"
    ELSE IF Has(tl, "temp") /\ tl.temp < 20000 THEN "cool"
    ELSE "temperate"

\* the tile's pH word
PHWord(tl) ==
    IF Has(tl, "pH") /\ tl.pH <= 2000 THEN "strongly acidic"
    ELSE IF Has(tl, "pH") /\ tl.pH < 6000 THEN "slightly acidic"
    ELSE IF Has(tl, "pH") /\ tl.pH > 8000 /\ tl.pH < 12000 THEN "slightly basic"
    ELSE IF Has(tl, "pH") /\ tl.pH >= 12000 THEN "strongly basic"
    ELSE "near neutral"

\* tile.history, <<>> when the tile has none (lastN answers null for both)
History(tl) == Prop(tl, "history", <<>>)

\* BecauseText asking becauseTemp whatever the temperature trend
BecauseText_ungated(tl) ==
    LET tempTrend == trendLabelTemp(History(tl))
        pTrend == trendLabelPressure(History(tl))
        phTrend == trendLabelPH(History(tl))
        gTrend == trendLabelGas(History(tl))
        dir == IF phTrend \in {"becoming more basic"} THEN "up"
               ELSE IF phTrend \in {"becoming more acidic"} THEN "down"
               ELSE ""
        bTemp == becauseTemp(tl)
        bPressure == IF pTrend = "pressure building" THEN becausePressure(tl) ELSE <<>>
        bPH == IF dir # "" THEN becausePH(tl, dir) ELSE <<>>
        bGas == IF gTrend = "gas building" THEN becauseGas(tl) ELSE <<>>
        becauseBits == SelectSeq(<<bTemp, bPressure, bPH, bGas>>, LAMBDA b : b # <<>>)
    IN IF Len(becauseBits) > 0
       THEN <<" Because: ">> \o Join(becauseBits, "; ") \o <<".">>
       ELSE <<>>

\* the " Because: ...." sentence, <<>> when no clause fires
BecauseText(tl) ==
    LET tempTrend == trendLabelTemp(History(tl))
        pTrend == trendLabelPressure(History(tl))
        phTrend == trendLabelPH(History(tl))
        gTrend == trendLabelGas(History(tl))
        dir == IF phTrend \in {"becoming more basic"} THEN "up"
               ELSE IF phTrend \in {"becoming more acidic"} THEN "down"
               ELSE ""
        bTemp == IF tempTrend = " (heating up)" THEN becauseTemp(tl) ELSE <<>>
        bPressure == IF pTrend = "pressure building" THEN becausePressure(tl) ELSE <<>>
        bPH == IF dir # "" THEN becausePH(tl, dir) ELSE <<>>
        bGas == IF gTrend = "gas building" THEN becauseGas(tl) ELSE <<>>
        becauseBits == SelectSeq(<<bTemp, bPressure, bPH, bGas>>, LAMBDA b : b # <<>>)
    IN IF Len(becauseBits) > 0
       THEN <<" Because: ">> \o Join(becauseBits, "; ") \o <<".">>
       ELSE <<>>

summarizeTile(tl) ==
    LET tempTrend == trendLabelTemp(History(tl))
        gasLevel == SumValues(Prop(tl, "gas", <<>>))
        bits == <<(<<TempWord(tl)>> \o (IF tempTrend # "" THEN <<tempTrend>> ELSE <<>>))>>
                \o <<(<<PHWord(tl)>>)>>
                \o (IF gasLevel > 1000 THEN <<(<<"gassy">>)>>
                    ELSE IF gasLevel > 100 THEN <<(<<"traces of gas">>)>>
                    ELSE <<>>)
                \o (IF Prop(tl, "pressure", 0) > 4000 THEN <<(<<"pressurized">>)>> ELSE <<>>)
        pTrend == trendLabelPressure(History(tl))
        phTrend == trendLabelPH(History(tl))
        gTrend == trendLabelGas(History(tl))
        trendBits == SelectSeq(<<pTrend, phTrend, gTrend>>, LAMBDA b : b # "")
        head == (IF Len(bits) > 0 THEN Join(bits, ", ") ELSE <<"stable">>)
                \o (IF Len(trendBits) > 0
                    THEN <<"; ">> \o Join([k \in 1..Len(trendBits) |-> <<trendBits[k]>>], ", ")
                    ELSE <<>>)
        species == SelectSeq(Prop(tl, "species", <<>>), LAMBDA e : e.v * 10 > 1)
        ranked == Slice0(SortDesc([k \in 1..Len(species) |->
                                    [k |-> species[k].v, v |-> species[k]]]), 2)
        speciesText == IF Len(ranked) > 0
                       THEN <<" Notable species: ">>
                            \o Join([k \in 1..Len(ranked) |-> <<niceName(ranked[k].v.id)>>], ", ")
                            \o <<".">>
                       ELSE <<>>
    IN <<"This tile is ">> \o head \o <<".">> \o BecauseText(tl) \o speciesText

\* TopActs cutting the list to 3 before it is sorted
TopActs_sliceFirst(tl) ==
    LET present == Slice0(SelectSeq(Activity(tl), LAMBDA i : i # Null), 3)
        sorted == SortDesc([k \in 1..Len(present) |->
                              [k |-> Prop(Pool[present[k]], "extent", 0), v |-> present[k]]])
    IN [k \in 1..Len(sorted) |-> sorted[k].v]

\* (tile._activity || []).filter(Boolean).sort(by extent, descending).slice(0, 3)
TopActs(tl) ==
    LET present == SelectSeq(Activity(tl), LAMBDA i : i # Null)
        sorted == SortDesc([k \in 1..Len(present) |->
                              [k |-> Prop(Pool[present[k]], "extent", 0), v |-> present[k]]])
        top == Slice0(sorted, 3)
    IN [k \in 1..Len(top) |-> top[k].v]

\* a._tile = tile
attachTile(br, a) == [br EXCEPT ![a] = TRUE]

\* entry._tile || null, where every back-reference set refers to tl
TileRef(br, i, tl) == IF br[i] THEN tl ELSE <<>>

\* narrateTile describing each entry before it attaches the tile to it
narrateTile_lateAttach(tl, br) ==
    LET acts == TopActs(tl)
        d == [k \in 1..Len(acts) |->
                describeReactionEntry(acts[k], TileRef(br, acts[k], tl))]
        productionLines == buildProductionInsights(tl)
    IN <<summarizeTile(tl)>>
       \o SelectSeq(d, LAMBDA x : x # <<>>)
       \o productionLines
       \o (IF Len(acts) = 0 /\ Len(productionLines) = 0
           THEN <<(<<"No active reactions detected.">>)>> ELSE <<>>)

\* the lines narrateTile(tl) returns when the entries' back-references are br
narrateTile(tl, br) ==
    LET acts == TopActs(tl)
        d == [k \in 1..Len(acts) |->
                describeReactionEntry(acts[k], TileRef(attachTile(br, acts[k]), acts[k], tl))]
        productionLines == buildProductionInsights(tl)
    IN <<summarizeTile(tl)>>
       \o SelectSeq(d, LAMBDA x : x # <<>>)
       \o productionLines
       \o (IF Len(acts) = 0 /\ Len(productionLines) = 0
           THEN <<(<<"No active reactions detected.">>)>> ELSE <<>>)

\* the back-references narrateTile(tl) leaves behind
RECURSIVE AttachAll(_, _)
AttachAll(br, acts) ==
    IF acts = <<>> THEN br ELSE AttachAll(attachTile(br, Head(acts)), Tail(acts))

\* ---------------------------------------------------------------- inputs

\* the tiles' fields other than the activity list
TileEnvs == {
    \* a quiet tile without history
    [temp |-> 25000, pH |-> 7000, moisture |-> 500, pressure |-> 0,
     gas |-> <<>>, species |-> <<>>, history |-> <<>>],
    \* heating up and building pressure, hydrogen in the air
    [temp |-> 25000, pH |-> 7000, moisture |-> 500, pressure |-> 5000,
     gas |-> <<[id |-> "H2", v |-> 500]>>,
     species |-> <<[id |-> "HCl", v |-> 300], [id |-> "NaOH", v |-> 700], [id |-> "NaCl", v |-> 500]>>,
     history |-> <<[t |-> 0, temp |-> 20000, pressure |-> 1000],
                   [t |-> 5000, temp |-> 25000, pressure |-> 1200]>>],
    \* heating up only, a trace of gas below the 0.05 threshold
    [temp |-> 61000, pH |-> 1500, moisture |-> 500, pressure |-> 1000,
     gas |-> <<[id |-> "CO2_g", v |-> 30]>>, species |-> <<>>,
     history |-> <<[t |-> 0, temp |-> 60000, pressure |-> 1000],
                   [t |-> 1000, temp |-> 60500, pressure |-> 1000],
                   [t |-> 2000, temp |-> 61000, pressure |-> 1000]>>],
    \* cooling while pressure builds, gassy
    [temp |-> 15000, pH |-> 9000, moisture |-> 500, pressure |-> 2000,
     gas |-> <<[id |-> "CO2_g", v |-> 600], [id |-> "H2", v |-> 2000]>>, species |-> <<>>,
     history |-> <<[t |-> 0, temp |-> 30000, pressure |-> 1000],
                   [t |-> 1000, temp |-> 15000, pressure |-> 2000]>>],
    \* samples carrying pH and gasSum: turning basic, gas building
    [temp |-> 0, pH |-> 12500, moisture |-> 500, pressure |-> 0,
     gas |-> <<[id |-> "CO2_g", v |-> 4000]>>, species |-> <<>>,
     history |-> <<[t |-> 0, temp |-> 0, pressure |-> 0, pH |-> 7500, gasSum |-> 0],
                   [t |-> 1000, temp |-> 0, pressure |-> 0, pH |-> 9000, gasSum |-> 1000]>>] }

\* the activity lists of up to max elements: no entry object twice, at most one
\* falsy element
ActLists(max) ==
    UNION {{s \in [1..n -> 0..Len(Pool)] : \A i, j \in 1..n : i # j => s[i] # s[j]}
           : n \in 0..max}

\* the tiles handed to the narrator; the first kind has no _activity property
Tiles(max) ==
    TileEnvs \cup {env @@ [_activity |-> acts] : env \in TileEnvs, acts \in ActLists(max)}

\* tiles that lack one or more of the numeric fields temp, pH and pressure
SparseEnvs ==
    {[f \in DOMAIN env \ missing |-> env[f]] :
        env \in TileEnvs, missing \in (SUBSET {"temp", "pH", "pressure"}) \ {{}}}

SparseTiles ==
    SparseEnvs \cup {env @@ [_activity |-> acts] : env \in SparseEnvs,
                                                  acts \in ActLists(MaxMixedActs)}

\* the samples handed to trendOf on its own: a time and, or not, a temperature
Samples ==
    {[t |-> t] : t \in {0, 1000, 2000}}
    \cup {[t |-> t, temp |-> v] : t \in {0, 1000, 2000}, v \in {50, 150}}

Histories == UNION {[1..n -> Samples] : n \in 0..MaxHist}

\* the predicates pickActivity is called with; "" is none
Predicates == {"", "temp", "pH up", "pH down", "gas", "pressure"}

\* ---------------------------------------------------------------- history store

HISTORY_DURATION_MS == 10000

HISTORY_SAMPLE_MS == 150

\* the sample count above which recordSubscribedHistories drops the oldest sample
HISTORY_MAX_SAMPLES == 200

\* -Infinity: below every time, so far that a difference with it exceeds every span
NegInfinity == -1000000000

\* no tile: what world.tile(x, y) answers where the world has none (null)
NoTile == 0

\* ensureHistoryBuffer(tile), tile an object: the object afterwards
ensureHistoryBuffer(tl) ==
    tl @@ [history |-> <<>>, _historyMeta |-> [lastSampleAt |-> NegInfinity]]

subscribeHistory(st, id) ==
    IF id = NoTile THEN st
    ELSE [st EXCEPT !.objs[id] = ensureHistoryBuffer(@), !.subs = @ \cup {id}]

\* the tile object after unsubscribeHistory(tile, {clear})
Released(tl, clear) ==
    LET cleared == IF clear /\ Has(tl, "history") THEN [tl EXCEPT !.history = <<>>] ELSE tl
    IN IF Has(cleared, "_historyMeta")
       THEN [cleared EXCEPT !._historyMeta.lastSampleAt = NegInfinity]
       ELSE cleared

unsubscribeHistory(st, id, clear) ==
    IF id = NoTile THEN st
    ELSE [st EXCEPT !.objs[id] = Released(@, clear), !.subs = @ \ {id}]

clearSubscribers(st) == [st EXCEPT !.subs = {}]

\* { t: now, temp: tile.temp, pressure: tile.pressure||0 } with pH and gasSum added
Sample_withPHAndGas(tl, n) ==
    [t |-> n, temp |-> tl.temp, pressure |-> Prop(tl, "pressure", 0),
     pH |-> tl.pH, gasSum |-> SumValues(Prop(tl, "gas", <<>>))]

\* { t: now, temp: tile.temp, pressure: tile.pressure||0 }
Sample(tl, n) == [t |-> n, temp |-> tl.temp, pressure |-> Prop(tl, "pressure", 0)]

\* while(history.length && history[0].t < cutoff) history.shift()
RECURSIVE DropExpired(_, _)
DropExpired(history, cutoff) ==
    IF history # <<>> /\ Head(history).t < cutoff
    THEN DropExpired(Tail(history), cutoff)
    ELSE history

\* the body of recordSubscribedHistories' loop putting the new sample first
RecordTile_unshift(tl, n) ==
    LET t0 == ensureHistoryBuffer(tl)
        meta == t0._historyMeta
        last == IF meta.lastSampleAt = 0 THEN NegInfinity ELSE meta.lastSampleAt
    IN IF n - last < HISTORY_SAMPLE_MS THEN t0
       ELSE LET pushed == <<Sample(t0, n)>> \o t0.history
                kept == DropExpired(pushed, n - HISTORY_DURATION_MS)
            IN [t0 EXCEPT !.history = IF Len(kept) > HISTORY_MAX_SAMPLES THEN Tail(kept) ELSE kept,
                          !._historyMeta.lastSampleAt = n]

\* the body of recordSubscribedHistories' loop for one subscribed tile object
RecordTile(tl, n) ==
    LET t0 == ensureHistoryBuffer(tl)
        meta == t0._historyMeta
        \* meta.lastSampleAt || -Infinity: 0 is falsy
        last == IF meta.lastSampleAt = 0 THEN NegInfinity ELSE meta.lastSampleAt
    IN IF n - last < HISTORY_SAMPLE_MS THEN t0
       ELSE LET pushed == Append(t0.history, Sample(t0, n))
                kept == DropExpired(pushed, n - HISTORY_DURATION_MS)
            IN [t0 EXCEPT !.history = IF Len(kept) > HISTORY_MAX_SAMPLES THEN Tail(kept) ELSE kept,
                          !._historyMeta.lastSampleAt = n]

recordSubscribedHistories(st, n) ==
    [st EXCEPT !.objs = [id \in DOMAIN st.objs |->
                            IF id \in st.subs THEN RecordTile(st.objs[id], n) ELSE st.objs[id]]]

\* ---------------------------------------------------------------- inspector

\* the coordinates the host passes to select
Coords == {<<0, 0>>, <<1, 0>>}

\* world.tile(x, y)
WorldTile(w, c) == IF c \in DOMAIN w THEN w[c] ELSE NoTile

Abs(x) == IF x < 0 THEN 0 - x ELSE x

EmptySig == [kind |-> "", items |-> <<>>]

\* the redraw thresholds of the four stats: 0.05 for temp, 0.01 for the others
StatThreshold == [temp |-> 50, pH |-> 10, moisture |-> 10, pressure |-> 10]

\* _updateStats(tile)
updateStats(st, id) ==
    LET tl == st.objs[id]
        cur == [temp |-> tl.temp, pH |-> tl.pH, moisture |-> tl.moisture,
                pressure |-> Prop(tl, "pressure", 0)]
        draw == [f \in DOMAIN cur |->
                    st.lastStats = <<>> \/ Abs(cur[f] - st.lastStats[f]) > StatThreshold[f]]
    IN [st EXCEPT !.shown = [f \in DOMAIN cur |-> IF draw[f] THEN cur[f] ELSE st.shown[f]],
                  !.lastStats = cur]

\* [...list].sort((a,b) => (b.extent||0) - (a.extent||0)).slice(0, 5)
SortedTop5(p, list) ==
    LET sorted == SortDesc([k \in 1..Len(list) |->
                              [k |-> Prop(p[list[k]], "extent", 0), v |-> list[k]]])
        top == Slice0(sorted, 5)
    IN [k \in 1..Len(top) |-> top[k].v]

\* the signature of the sorted entries (values rounded to three decimals)
ReactionsSig(p, sorted) ==
    [kind |-> "json",
     items |-> [k \in 1..Len(sorted) |->
                  LET item == p[sorted[k]]
                  IN [id |-> item.id,
                      extent |-> Prop(item, "extent", 0),
                      limiter |-> Prop(item, "limiter", ""),
                      fizz |-> Prop(item, "fizz", FALSE),
                      heat |-> Prop(item, "heat", FALSE),
                      products |-> [n \in 1..Len(Products(item)) |->
                                      [id |-> Products(item)[n].id,
                                       qty |-> Prop(Products(item)[n], "qty", 0)]]]]]

\* products.sort((a,b) => (b.qty||0) - (a.qty||0)): the list afterwards
SortByQty(products) ==
    LET sorted == SortDesc([k \in 1..Len(products) |->
                              [k |-> Prop(products[k], "qty", 0), v |-> products[k]]])
    IN [k \in 1..Len(sorted) |-> sorted[k].v]

\* _updateReactions(tile): the markup sorts info.products itself
updateReactions(st, id) ==
    LET list == SelectSeq(Activity(st.objs[id]), LAMBDA i : i # Null)
        sorted == SortedTop5(st.pool, list)
        signature == ReactionsSig(st.pool, sorted)
        rendered == {sorted[k] : k \in 1..Len(sorted)}
    IN IF Len(list) = 0
       THEN [st EXCEPT !.lastReactionsSig = [kind |-> "empty", items |-> <<>>]]
       ELSE IF signature = st.lastReactionsSig THEN st
       ELSE [st EXCEPT !.lastReactionsSig = signature,
                       !.pool = [i \in DOMAIN st.pool |->
                                    IF i \in rendered /\ Has(st.pool[i], "products")
                                    THEN [st.pool[i] EXCEPT !.products = SortByQty(@)]
                                    ELSE st.pool[i]]]

\* _updateTile(tile, coords)
updateTile(st, id, coords) ==
    LET keyed == IF st.lastTileKey # coords
                 THEN [st EXCEPT !.lastStats = <<>>, !.lastReactionsSig = EmptySig,
                                 !.lastTileKey = coords]
                 ELSE st
    IN updateReactions(updateStats(keyed, id), id)

\* clear(world)
clear(st, w) ==
    LET tl == IF st.focus # <<>> THEN WorldTile(w, st.focus) ELSE NoTile
        released == unsubscribeHistory(st, tl, FALSE)
    IN [released EXCEPT !.focus = <<>>, !.lastTileKey = <<>>, !.lastStats = <<>>,
                        !.lastReactionsSig = EmptySig]

\* select(world, x, y)
select(st, w, c) ==
    LET tl == WorldTile(w, c)
        prev == IF st.focus # <<>> THEN WorldTile(w, st.focus) ELSE NoTile
        released == IF prev # NoTile /\ prev # tl
                    THEN unsubscribeHistory(st, prev, FALSE) ELSE st
        subscribed == subscribeHistory(released, tl)
    IN IF tl = NoTile THEN clear(st, w)
       ELSE updateTile([subscribed EXCEPT !.focus = c], tl, c)

\* refresh(world)
refresh(st, w) ==
    IF st.focus = <<>> THEN st
    ELSE IF WorldTile(w, st.focus) = NoTile THEN clear(st, w)
    ELSE updateTile(st, WorldTile(w, st.focus), st.focus)

\* onWorldCleared(world)
onWorldCleared(st, w) ==
    LET reset == [st EXCEPT !.lastStats = <<>>, !.lastReactionsSig = EmptySig]
        tl == IF st.focus # <<>> THEN WorldTile(w, st.focus) ELSE NoTile
    IN IF tl # NoTile
       THEN updateTile(subscribeHistory(reset, tl), tl, st.focus)
       ELSE [reset EXCEPT !.focus = <<>>]

\* ---------------------------------------------------------------- the world

\* a tile as the simulation creates it
PlainTile ==
    [temp |-> 25000, pH |-> 7000, moisture |-> 500, pressure |-> 1000,
     gas |-> <<>>, species |-> <<>>]

\* a tile with two reactions in progress
ActiveTile == PlainTile @@ [_activity |-> <<1, 3>>]

\* the world's tile objects at the start
InitialWorld == [c \in Coords |-> IF c = <<0, 0>> THEN 1 ELSE 2]

\* the store, the inspector and the world as they are now
State ==
    [objs |-> objs, subs |-> historySubscribers, pool |-> pool,
     focus |-> focus, lastTileKey |-> lastTileKey, lastStats |-> lastStats,
     lastReactionsSig |-> lastReactionsSig, shown |-> shown]

\* the variables take the fields of st
Becomes(st) ==
    /\ objs' = st.objs
    /\ historySubscribers' = st.subs
    /\ pool' = st.pool
    /\ focus' = st.focus
    /\ lastTileKey' = st.lastTileKey
    /\ lastStats' = st.lastStats
    /\ lastReactionsSig' = st.lastReactionsSig
    /\ shown' = st.shown

\* the store's state and the inspector's after construction, no tile inspected,
\* in a world w of the tile objects o
InitWorldOf(o, w) ==
    /\ pool = InitialPool
    /\ objs = o
    /\ world = w
    /\ historySubscribers = {}
    /\ now = 0
    /\ focus = <<>>
    /\ lastTileKey = <<>>
    /\ lastStats = <<>>
    /\ lastReactionsSig = EmptySig
    /\ shown = <<>>

InitWorld == InitWorldOf(<<PlainTile, PlainTile>>, InitialWorld)

\* ---------------------------------------------------------------- narration

Init ==
    /\ InitWorld
    /\ tile \in Tiles(MaxMixedActs)
    /\ backref = [i \in Entries |-> FALSE]
    /\ lines = <<>>
    /\ prevLines = <<>>
    /\ described = <<>>
    /\ ret = <<>>

\* narrator.narrateTile(tile)
NarrateTile ==
    /\ lines' = narrateTile(tile, backref)
    /\ prevLines' = lines
    /\ backref' = AttachAll(backref, TopActs(tile))
    /\ UNCHANGED <<tile, described, ret, pool, wvars, ivars>>

\* narrator.describeReactionEntry(entry), entry an element of the tile's list
DescribeReactionEntry(i) ==
    /\ \E k \in 1..Len(Activity(tile)) : Activity(tile)[k] = i
    /\ LET d == describeReactionEntry(i, TileRef(backref, i, tile))
       IN described' = [entry |-> i, sentence |-> d,
                        first |-> IF described # <<>> /\ described.entry = i
                                  THEN described.first ELSE d]
    /\ UNCHANGED <<tile, backref, lines, prevLines, ret, pool, wvars, ivars>>

Next ==
    \/ NarrateTile
    \/ \E i \in Entries : DescribeReactionEntry(i)

Spec == Init /\ [][Next]_vars

\* repeated narrateTile(tile) calls with no other call of the narrator in between,
\* on longer activity lists
InitNarrate ==
    /\ InitWorld
    /\ tile \in Tiles(MaxActs)
    /\ backref = [i \in Entries |-> FALSE]
    /\ lines = <<>>
    /\ prevLines = <<>>
    /\ described = <<>>
    /\ ret = <<>>

SpecNarrate == InitNarrate /\ [][NarrateTile]_vars

\* narrateTile(tile) on tiles with undefined numeric fields
InitSparse ==
    /\ InitWorld
    /\ tile \in SparseTiles
    /\ backref = [i \in Entries |-> FALSE]
    /\ lines = <<>>
    /\ prevLines = <<>>
    /\ described = <<>>
    /\ ret = <<>>

SpecSparse == InitSparse /\ [][NarrateTile]_vars

\* ---------------------------------------------------------------- trendOf alone

InitTrend ==
    /\ InitWorld
    /\ tile \in {[history |-> h] : h \in Histories}
    /\ backref = [i \in Entries |-> FALSE]
    /\ lines = <<>>
    /\ prevLines = <<>>
    /\ described = <<>>
    /\ ret = <<>>

\* trendOf(history, 'temp', { eps }): eps 0.05 as trendLabelTemp calls it, 0.02 the
\* default
TrendOf(eps) ==
    /\ ret = <<>>
    /\ ret' = [op |-> "trendOf", field |-> "temp", eps |-> eps,
               value |-> trendOf(tile.history, "temp", eps)]
    /\ UNCHANGED <<tile, backref, lines, prevLines, described, pool, wvars, ivars>>

NextTrend == \E eps \in {50, 20} : TrendOf(eps)

SpecTrend == InitTrend /\ [][NextTrend]_vars

\* ---------------------------------------------------------------- pickActivity alone

InitPick ==
    /\ InitWorld
    /\ tile \in {[_activity |-> acts] : acts \in ActLists(MaxActs)}
    /\ backref = [i \in Entries |-> FALSE]
    /\ lines = <<>>
    /\ prevLines = <<>>
    /\ described = <<>>
    /\ ret = <<>>

\* pickActivity(tile, predicate)
PickActivity(predicate) ==
    /\ ret = <<>>
    /\ ret' = [op |-> "pickActivity", predicate |-> predicate,
               value |-> pickActivity(tile, predicate)]
    /\ UNCHANGED <<tile, backref, lines, prevLines, described, pool, wvars, ivars>>

NextPick == \E predicate \in Predicates : PickActivity(predicate)

SpecPick == InitPick /\ [][NextPick]_vars

\* ---------------------------------------------------------------- history store alone

\* the times recordSubscribedHistories is called at: within the sampling interval
\* of one another, and a whole history window later
Times == {0, 100, 10000, 10100}

\* the narrator not called
InitIdle ==
    /\ tile = <<>>
    /\ backref = [i \in Entries |-> FALSE]
    /\ lines = <<>>
    /\ prevLines = <<>>
    /\ described = <<>>
    /\ ret = <<>>

InitHistory ==
    /\ InitWorld
    /\ InitIdle

\* subscribeHistory(tile)
SubscribeHistory(id) ==
    /\ Becomes(subscribeHistory(State, id))
    /\ UNCHANGED <<nvars, world, now>>

\* unsubscribeHistory(tile, {clear})
UnsubscribeHistory(id, clr) ==
    /\ Becomes(unsubscribeHistory(State, id, clr))
    /\ UNCHANGED <<nvars, world, now>>

\* clearSubscribers()
ClearSubscribers ==
    /\ Becomes(clearSubscribers(State))
    /\ UNCHANGED <<nvars, world, now>>

\* recordSubscribedHistories(n), n not before the call before
RecordSubscribedHistories(n) ==
    /\ n >= now
    /\ \A id \in historySubscribers : Len(History(objs[id])) < MaxSamples
    /\ Becomes(recordSubscribedHistories(State, n))
    /\ now' = n
    /\ UNCHANGED <<nvars, world>>

NextHistory ==
    \/ \E id \in DOMAIN objs : SubscribeHistory(id)
    \/ \E id \in DOMAIN objs, clr \in BOOLEAN : UnsubscribeHistory(id, clr)
    \/ ClearSubscribers
    \/ \E n \in Times : RecordSubscribedHistories(n)

SpecHistory == InitHistory /\ [][NextHistory]_vars

\* ---------------------------------------------------------------- inspector and world

InitInspector ==
    /\ InitWorldOf(<<ActiveTile, PlainTile>>, InitialWorld)
    /\ InitIdle

\* inspector.select(world, x, y)
Select(c) ==
    /\ Becomes(select(State, world, c))
    /\ UNCHANGED <<nvars, world, now>>

\* inspector.refresh(world)
Refresh ==
    /\ Becomes(refresh(State, world))
    /\ UNCHANGED <<nvars, world, now>>

\* inspector.clear(world)
Clear ==
    /\ Becomes(clear(State, world))
    /\ UNCHANGED <<nvars, world, now>>

\* inspector.onWorldCleared(world)
OnWorldCleared ==
    /\ Becomes(onWorldCleared(State, world))
    /\ UNCHANGED <<nvars, world, now>>

\* the host resets the world: new tile objects at the coordinates of keep, no tile
\* at the others
ResetWorld(keep) ==
    /\ Len(objs) + Cardinality(keep) <= MaxObjs
    /\ objs' = objs \o [k \in 1..Cardinality(keep) |-> PlainTile]
    /\ world' = [c \in Coords |->
                    IF c \notin keep THEN NoTile
                    ELSE IF c = <<0, 0>> \/ <<0, 0>> \notin keep THEN Len(objs) + 1
                    ELSE Len(objs) + 2]
    /\ UNCHANGED <<nvars, pool, historySubscribers, now, ivars>>

\* a call of the inspector by the host
InspectorCall ==
    \/ \E c \in Coords : Select(c)
    \/ Refresh
    \/ Clear
    \/ OnWorldCleared

NextInspector ==
    \/ InspectorCall
    \/ \E keep \in SUBSET Coords : ResetWorld(keep)

SpecInspector == InitInspector /\ [][NextInspector]_vars

\* ---------------------------------------------------------------- stats panel

\* what one simulation step adds to a field: less than the field's redraw threshold
StatDrift == [temp |-> 30, pH |-> 6, moisture |-> 6, pressure |-> 6]

\* the simulation steps that have moved tl away from PlainTile
Drifted(tl) ==
    (tl.temp - PlainTile.temp) \div StatDrift.temp
    + (tl.pH - PlainTile.pH) \div StatDrift.pH
    + (tl.moisture - PlainTile.moisture) \div StatDrift.moisture
    + (tl.pressure - PlainTile.pressure) \div StatDrift.pressure

\* a world of one tile
InitStats ==
    /\ InitWorldOf(<<PlainTile>>, [c \in Coords |-> IF c = <<0, 0>> THEN 1 ELSE NoTile])
    /\ InitIdle

\* the simulation moves one field of a tile a little
Drift(id, f) ==
    /\ Drifted(objs[id]) < MaxDrift
    /\ objs' = [objs EXCEPT ![id][f] = @ + StatDrift[f]]
    /\ UNCHANGED <<nvars, pool, world, historySubscribers, now, ivars>>

NextStats ==
    \/ \E c \in Coords : Select(c)
    \/ Refresh
    \/ \E id \in DOMAIN objs, f \in DOMAIN StatDrift : Drift(id, f)

SpecStats == InitStats /\ [][NextStats]_vars

\* ---------------------------------------------------------------- recorded histories

\* the chemistry the simulation moves a tile to: as created, and after a reaction
\* has heated it, raised its pressure and pH and released hydrogen
Chemistry == {
    [temp |-> 25000, pH |-> 7000, pressure |-> 1000, gas |-> <<>>],
    [temp |-> 40000, pH |-> 9500, pressure |-> 3000, gas |-> <<[id |-> "H2", v |-> 2000]>>] }

InitRecorded ==
    /\ InitWorldOf(<<ActiveTile>>, [c \in Coords |-> IF c = <<0, 0>> THEN 1 ELSE NoTile])
    /\ InitIdle

\* the simulation sets a tile's temperature, pH, pressure and gas
React(id, chem) ==
    /\ objs' = [objs EXCEPT ![id] = chem @@ @]
    /\ UNCHANGED <<nvars, pool, world, historySubscribers, now, ivars>>

\* narrator.narrateTile(tile), tile an object of the world
NarrateObj(id) ==
    /\ tile' = objs[id]
    /\ lines' = narrateTile(objs[id], backref)
    /\ prevLines' = lines
    /\ backref' = AttachAll(backref, TopActs(objs[id]))
    /\ UNCHANGED <<described, ret, pool, wvars, ivars>>

\* the tile is sampled while the simulation runs; the narration ends the run
NextRecorded ==
    \/ lines = <<>> /\ \E id \in DOMAIN objs : SubscribeHistory(id)
    \/ lines = <<>> /\ \E n \in Times : RecordSubscribedHistories(n)
    \/ lines = <<>> /\ \E id \in DOMAIN objs, chem \in Chemistry : React(id, chem)
    \/ lines = <<>> /\ \E id \in DOMAIN objs : NarrateObj(id)

SpecRecorded == InitRecorded /\ [][NextRecorded]_vars

\* ---------------------------------------------------------------- narration of an inspected tile

\* a world of two tiles, one of them with reactions in progress
InitInspected ==
    /\ pool = InitialPool
    /\ \E acts \in ActLists(MaxMixedActs) \ {<<>>} :
            InitWorldOf(<<PlainTile @@ [_activity |-> acts], PlainTile>>, InitialWorld)
    /\ InitIdle

\* the tiles are inspected, and the one with reactions in progress narrated, while
\* the simulation stands still
NextInspected ==
    \/ \E c \in Coords : Select(c)
    \/ Refresh
    \/ \E id \in DOMAIN objs : Activity(objs[id]) # <<>> /\ NarrateObj(id)

SpecInspected == InitInspected /\ [][NextInspected]_vars

\* ---------------------------------------------------------------- claims

FallbackLine == <<"No active reactions detected.">>

\* the positions of the non-falsy elements of the tile's activity list
Positions == {k \in 1..Len(Activity(tile)) : Activity(tile)[k] # Null}

ExtentAt(k) == Prop(Pool[Activity(tile)[k]], "extent", 0)

\* how many non-falsy elements come before position k in descending-extent order,
\* equal extents in list order
RankAt(k) ==
    Cardinality({j \in Positions : \/ ExtentAt(j) > ExtentAt(k)
                                   \/ ExtentAt(j) = ExtentAt(k) /\ j < k})

\* the entries of rank 0, 1 and 2, in that order
Leading ==
    LET n == Min(3, Cardinality(Positions))
    IN [r \in 1..n |-> Activity(tile)[CHOOSE k \in Positions : RankAt(k) = r - 1]]

\* the sentences of the leading entries whose reaction is known
LeadingSentences ==
    LET known == SelectSeq(Leading, LAMBDA i : HasRx(Pool[i].id))
    IN [r \in 1..Len(known) |-> describeReactionEntry(known[r], tile)]

\* C1: narrateTile returns the summary (starting "This tile is "), then the
\* sentences of the up to 3 non-falsy entries of the greatest extent, in descending
\* extent order and list order among equals, none for an unknown reaction id, then
\* all production-insight lines (then, at most, the fallback line).
C1_NarrationLayout ==
    lines # <<>> =>
        LET body == <<summarizeTile(tile)>> \o LeadingSentences
                    \o buildProductionInsights(tile)
        IN /\ lines[1][1] = "This tile is "
           /\ Len(LeadingSentences) <= 3
           /\ lines \in {body, Append(body, FallbackLine)}

C1_Witness ==
    /\ lines # <<>>
    /\ Activity(tile) = <<2, 1, 5, 3>>
    /\ Len(LeadingSentences) = 2
    /\ Len(lines) = 6

\* C2: narrateTile never returns the summary alone: with no per-reaction sentence
\* and no production-insight line the result is the summary and the fallback line,
\* and with at least one of them the fallback line is absent.
C2_FallbackWheneverNothingEmitted ==
    lines # <<>> =>
        IF Len(LeadingSentences) = 0 /\ Len(buildProductionInsights(tile)) = 0
        THEN lines = <<summarizeTile(tile), FallbackLine>>
        ELSE \A k \in 1..Len(lines) : lines[k] # FallbackLine

\* C3: consecutive narrateTile calls on the same tile return identical lists.
C3_Deterministic == prevLines # <<>> => lines = prevLines

\* the second call narrated a tile with a gas above 0.05 and a gas-free reaction
\* among its leading entries
C3_Witness ==
    /\ prevLines # <<>>
    /\ \E k \in 1..Len(Prop(tile, "gas", <<>>)) : tile.gas[k].v > 50
    /\ \E r \in 1..Len(Leading) : Leading[r] = 1

\* C4: describeReactionEntry(entry) returns the same sentence before and after
\* narrateTile has run on the tile holding the entry.
C4_DescribeUnaffectedByNarration ==
    described # <<>> => described.sentence = described.first

\* C5: trendOf looks only at the first and last of the final min(3, length)
\* samples: "flat" for fewer than 2 samples or an elapsed time <= 0, else "up" iff
\* the slope (a missing field counted as 0) exceeds eps, "down" iff it is below
\* -eps, else "flat"; so strictly increasing temperatures at least 1 s apart with a
\* slope above eps give "up", the decreasing mirror "down", a constant series "flat".
C5_TrendOf ==
    ret # <<>> /\ ret.op = "trendOf" =>
        LET h == tile.history
            n == Len(h)
            a == IF n >= 3 THEN n - 2 ELSE 1
            eps == ret.eps
            dt == h[n].t - h[a].t
            dv == Prop(h[n], "temp", 0) - Prop(h[a], "temp", 0)
            window == a..n
            spaced == \A k \in window : k > a =>
                        /\ h[k].t - h[k - 1].t >= 1000
                        /\ Has(h[k], "temp") /\ Has(h[k - 1], "temp")
            rising == spaced /\ \A k \in window : k > a => h[k].temp > h[k - 1].temp
            falling == spaced /\ \A k \in window : k > a => h[k].temp < h[k - 1].temp
            constant == \A k \in window : Prop(h[k], "temp", 0) = Prop(h[a], "temp", 0)
        IN IF n < 2 THEN ret.value = "flat"
           ELSE /\ dt <= 0 => ret.value = "flat"
                /\ dt > 0 =>
                    /\ ret.value = "up" <=> dv * 1000 > eps * dt
                    /\ ret.value = "down" <=> dv * 1000 < (0 - eps) * dt
                    /\ ret.value \in {"up", "down", "flat"}
                /\ rising /\ dv * 1000 > eps * dt => ret.value = "up"
                /\ falling /\ (0 - dv) * 1000 > eps * dt => ret.value = "down"
                /\ constant => ret.value = "flat"

\* "up" over the last three of four samples, the first sample above the last
C5_Witness ==
    /\ ret # <<>> /\ ret.op = "trendOf" /\ ret.value = "up"
    /\ Len(tile.history) = 4
    /\ Prop(tile.history[1], "temp", 0) > Prop(tile.history[4], "temp", 0)
    /\ tile.history[1].t < tile.history[4].t

\* the positions pickActivity keeps under a predicate
Survivors(predicate) ==
    {k \in Positions :
        /\ ExtentAt(k) > 0
        /\ HasRx(Pool[Activity(tile)[k]].id)
        /\ predicate = "" \/ Predicate(predicate, Pool[Activity(tile)[k]],
                                          rxIndex[Pool[Activity(tile)[k]].id])}

\* the earliest of the positions of S with the greatest extent
Winner(S) ==
    CHOOSE k \in S :
        \A j \in S : ExtentAt(j) <= ExtentAt(k) /\ (ExtentAt(j) = ExtentAt(k) => k <= j)

\* C6: pickActivity returns null when no entry is non-falsy, has extent > 0, a
\* known reaction id and satisfies the predicate; otherwise the earliest such entry
\* whose extent is the greatest among them.
C6_PickActivity ==
    ret # <<>> /\ ret.op = "pickActivity" =>
        LET S == Survivors(ret.predicate)
        IN IF S = {} THEN ret.value = Null
           ELSE ret.value = Activity(tile)[Winner(S)]

\* two survivors tie at the greatest extent; the first of them is returned
C6_Witness ==
    /\ ret # <<>> /\ ret.op = "pickActivity" /\ ret.value # Null
    /\ \E j, k \in Survivors(ret.predicate) :
            /\ j < k
            /\ ExtentAt(j) = ExtentAt(k)
            /\ \A m \in Survivors(ret.predicate) : ExtentAt(m) <= ExtentAt(k)
            /\ ret.value = Activity(tile)[j]

\* the summary of the last narrateTile call holds the fragment
SummaryHas(fragment) == \E p \in 1..Len(lines[1]) : lines[1][p] = fragment

\* the positions of the entries with extent > 0 and a known reaction
ActivePositions ==
    {k \in Positions : ExtentAt(k) > 0 /\ HasRx(Pool[Activity(tile)[k]].id)}

RxAt(k) == rxIndex[Pool[Activity(tile)[k]].id]

\* the entry has the heat flag, its reaction a positive heatPerUnit or a tag
\* beginning with "exothermic"
Heats(k) ==
    \/ Prop(Pool[Activity(tile)[k]], "heat", FALSE)
    \/ Prop(Prop(RxAt(k), "effects", <<>>), "heatPerUnit", 0) > 0
    \/ \E n \in 1..Len(RxAt(k).tags) : StartsWithExothermic(RxAt(k).tags[n])

\* C7: the summary contains "temperature rising because" iff the temperature trend
\* (epsilon 0.05) is "up" and some activity with extent > 0 and a known reaction has
\* the heat flag, a positive heatPerUnit or an "exothermic..." tag; the clause then
\* names the first reactants of the winning (greatest extent, first on ties) one.
C7_TemperatureClauseGated ==
    lines # <<>> =>
        LET up == trendOf(History(tile), "temp", 50) = "up"
            Q == {k \in ActivePositions : Heats(k)}
            has == SummaryHas("temperature rising because ")
        IN /\ (has <=> (up /\ Q # {}))
           /\ (has =>
                LET rs == Prop(RxAt(Winner(Q)), "reactants", <<>>)
                    p == CHOOSE p \in 1..Len(lines[1]) :
                            lines[1][p] = "temperature rising because "
                IN /\ (Len(rs) >= 1 => lines[1][p + 1] = niceName(rs[1]))
                   /\ (Len(rs) >= 2 => /\ lines[1][p + 2] = " and "
                                       /\ lines[1][p + 3] = niceName(rs[2])))

\* two entries heat the tile; the clause names the reactants of the one of the
\* greater extent, listed last
C7_Witness ==
    /\ lines # <<>>
    /\ Activity(tile) = <<1, 6, 2>>
    /\ \E p \in 1..Len(lines[1]) :
            /\ lines[1][p] = "temperature rising because "
            /\ lines[1][p + 1] = "HCl"
            /\ lines[1][p + 3] = "CaCO3"

\* C8: with the pressure trend "up" but no active reaction (extent > 0, known id)
\* that has a pressurePulse effect or a gas-phase product, the summary contains no
\* "pressure building because" clause, even if an active reaction carries a
\* gas_evolution tag.
C8_PressureClauseNeedsPulseOrGasProduct ==
    lines # <<>> =>
        LET up == trendOf(History(tile), "pressure", 20) = "up"
            Q == {k \in ActivePositions :
                    \/ Prop(Prop(RxAt(k), "effects", <<>>), "pressurePulse", FALSE)
                    \/ \E n \in 1..Len(Products(Pool[Activity(tile)[k]])) :
                            isGasProduct(Products(Pool[Activity(tile)[k]])[n].id, RxAt(k))}
        IN (up /\ Q = {}) => ~SummaryHas("pressure building because ")

\* the <<position, product index>> pairs of the products of quantity > 0 of the
\* active entries
Contribs ==
    {c \in UNION {{<<k, n>> : n \in 1..Len(Products(Pool[Activity(tile)[k]]))}
                  : k \in ActivePositions} :
        Prop(Products(Pool[Activity(tile)[c[1]]])[c[2]], "qty", 0) > 0}

ProdIdAt(c) == Products(Pool[Activity(tile)[c[1]]])[c[2]].id

Before(c, d) == c[1] < d[1] \/ (c[1] = d[1] /\ c[2] < d[2])

ProducedIds == {ProdIdAt(c) : c \in Contribs}

\* where the product id is first encountered
FirstOf(id) ==
    CHOOSE c \in Contribs :
        ProdIdAt(c) = id /\ \A d \in Contribs : ProdIdAt(d) = id => ~Before(d, c)

\* the produced ids in the order they are first encountered
ProducedInOrder ==
    [r \in 1..Cardinality(ProducedIds) |->
        CHOOSE id \in ProducedIds :
            Cardinality({x \in ProducedIds : Before(FirstOf(x), FirstOf(id))}) = r - 1]

\* C9: buildProductionInsights emits exactly one line per distinct product id that
\* some activity with extent > 0 and a known reaction produces with quantity > 0,
\* and no other line, in the order the ids are first encountered; a line lists every
\* distinct label of the producing reactions, joined by " and ", and takes limiter
\* and reactants from the first contributing activity.
C9_ProductionInsights ==
    lines # <<>> =>
        LET n == Cardinality(ProducedIds)
            rest == Len(lines) - 1 - Len(LeadingSentences)
        IN /\ (n > 0 => rest = n)
           /\ (n = 0 => (rest = 0 \/ (rest = 1 /\ lines[Len(lines)] = FallbackLine)))
           /\ \A r \in 1..n :
                LET id == ProducedInOrder[r]
                    line == lines[1 + Len(LeadingSentences) + r]
                    labels == {reactionLabel(RxAt(c[1])) : c \in {d \in Contribs : ProdIdAt(d) = id}}
                    inc == CHOOSE p \in 1..Len(line) : line[p] = ". Increase production by "
                    alone == ProductionLine(id, <<Activity(tile)[FirstOf(id)[1]]>>)
                    incAlone == CHOOSE p \in 1..Len(alone) : alone[p] = ". Increase production by "
                IN /\ line[1] = niceName(id)
                   /\ line[2] = " is being produced by "
                   /\ inc = 2 + 2 * Cardinality(labels)
                   /\ {line[p] : p \in {q \in 3..(inc - 1) : q % 2 = 1}} = labels
                   /\ \A p \in 3..(inc - 1) : p % 2 = 0 => line[p] = " and "
                   /\ SubSeq(line, inc, Len(line)) = SubSeq(alone, incAlone, Len(alone))

\* water comes from two entries of one reaction and from a third with another
\* label; the first contributor has a limiter, the others none
C9_Witness ==
    /\ lines # <<>>
    /\ Activity(tile) = <<6, 3, 1>>
    /\ Cardinality(ProducedIds) = 3
    /\ Len(lines) = 7

\* the entry's reaction has an acid and a base reactant, no exothermic tag, no
\* positive heatPerUnit, no gas_evolution tag and no emitGas effect; the entry has
\* no limiter and at least one product, none of them a gas or a solid
PlainNeutralization(i) ==
    /\ HasRx(Pool[i].id)
    /\ LET rx == rxIndex[Pool[i].id]
           rs == Prop(rx, "reactants", <<>>)
           fx == Prop(rx, "effects", <<>>)
           prods == Products(Pool[i])
       IN /\ \E k \in 1..Len(rs) : Prop(Material(rs[k]), "corrosivity", "") = "acid"
          /\ \E k \in 1..Len(rs) : Prop(Material(rs[k]), "corrosivity", "") = "base"
          /\ \A k \in 1..Len(rx.tags) :
                ~StartsWithExothermic(rx.tags[k]) /\ ~Includes(rx.tags[k], "gas_evolution")
          /\ Prop(fx, "heatPerUnit", 0) <= 0
          /\ ~Prop(fx, "emitGas", FALSE)
          /\ ~Has(Pool[i], "limiter")
          /\ Len(prods) > 0
          /\ \A k \in 1..Len(prods) :
                ~isGasProduct(prods[k].id, rx) /\ ~isSolidProduct(prods[k].id, rx)

\* "The acid is neutralizing the base, forming {top product names}. Intensity
\* {round(min(1,extent)*100)}%, rate-limited."
PlainNeutralizationSentence(i) ==
    LET prods == Products(Pool[i])
        rank(k) == Cardinality({j \in 1..Len(prods) :
                        \/ prods[j].qty > prods[k].qty
                        \/ (prods[j].qty = prods[k].qty /\ j < k)})
        names == [r \in 1..Min(3, Len(prods)) |->
                    <<niceName(prods[CHOOSE k \in 1..Len(prods) : rank(k) = r - 1].id)>>]
        m == Min(1000, Prop(Pool[i], "extent", 0))
        percent == CHOOSE r \in -1000..100 : 10 * r - 5 <= m /\ m < 10 * r + 5
    IN <<"The acid is neutralizing the base", ", ", "forming ">>
       \o Join(names, ", ")
       \o <<". Intensity ", ToString(percent), "%, ", "rate-limited", ".">>

\* the leading entries with a known reaction: entry r of it gets line 1 + r
KnownLeading == SelectSeq(Leading, LAMBDA i : HasRx(Pool[i].id))

\* C10 as claimed: the sentence narrateTile gives a plain neutralization is the
\* "forming ..." sentence in every cell holding it, whatever gas the cell holds.
C10_FormingWhateverTheCellGas ==
    lines # <<>> =>
        \A r \in 1..Len(KnownLeading) :
            PlainNeutralization(KnownLeading[r]) =>
                lines[1 + r] = PlainNeutralizationSentence(KnownLeading[r])

\* the tile holds no gas species above 0.05
NoTileGasAbove005 ==
    \A k \in 1..Len(Prop(tile, "gas", <<>>)) : tile.gas[k].v <= 50

\* C10 as amended: the sentence narrateTile gives a plain neutralization is the
\* "forming ..." sentence in every cell holding it that holds no gas species above
\* 0.05.
C10_FormingUnlessCellGas ==
    (lines # <<>> /\ NoTileGasAbove005) =>
        \A r \in 1..Len(KnownLeading) :
            PlainNeutralization(KnownLeading[r]) =>
                lines[1 + r] = PlainNeutralizationSentence(KnownLeading[r])

\* a plain neutralization narrated in a cell holding a gas, at 0.03
C10_Witness ==
    /\ lines # <<>>
    /\ NoTileGasAbove005
    /\ Len(Prop(tile, "gas", <<>>)) > 0
    /\ \E r \in 1..Len(KnownLeading) : PlainNeutralization(KnownLeading[r])

\* C11: an undefined temp, pH or pressure of the tile is read as 0: the summary of
\* a tile lacking one of them is the summary of the same tile with that field 0
C11_UndefinedFieldAsZero ==
    lines # <<>> =>
        \A f \in {"temp", "pH", "pressure"} :
            ~Has(tile, f) => lines[1] = summarizeTile((f :> 0) @@ tile)

\* the tile objects that hold a history
Recorded == {id \in DOMAIN objs : Has(objs[id], "history")}

\* C12 as stated: in every tile's history each sample's t is greater than the t of
\* the sample before it
C12_HistoryStrictlyAscending ==
    \A id \in Recorded :
        \A k \in 2..Len(objs[id].history) :
            objs[id].history[k].t > objs[id].history[k - 1].t

\* C12 amended: in every tile's history no sample's t is less than the t of the
\* sample before it
C12_HistoryAscending ==
    \A id \in Recorded :
        \A k \in 2..Len(objs[id].history) :
            objs[id].history[k].t >= objs[id].history[k - 1].t

\* a history with two samples of one time next to samples of another
C12_Witness ==
    \E id \in Recorded :
        LET h == objs[id].history
        IN /\ Len(h) = 3
           /\ h[1].t < h[2].t
           /\ h[2].t = h[3].t

\* what C13 says of the state after a recordSubscribedHistories call
WithinWindow ==
    \A id \in historySubscribers :
        /\ Len(History(objs[id])) <= HISTORY_MAX_SAMPLES
        /\ \A k \in 1..Len(History(objs[id])) :
                History(objs[id])[k].t >= now - HISTORY_DURATION_MS

\* C13: after every recordSubscribedHistories(now) call each subscribed tile's
\* history holds at most 200 samples, none older than now - HISTORY_DURATION_MS
C13_HistoryBounded ==
    [][(\E n \in Times : RecordSubscribedHistories(n)) => WithinWindow']_vars

\* what C14 says of the state after a call of the inspector
SubscribersWithinFocus ==
    historySubscribers \subseteq
        (IF focus = <<>> THEN {} ELSE {WorldTile(world, focus)} \ {NoTile})

\* C14: after every select, refresh, clear and onWorldCleared call the subscriber
\* set holds no tile object but the one in focus, and none without a focus
C14_SubscribersWithinFocus ==
    [][InspectorCall => SubscribersWithinFocus']_vars

\* C15: select and refresh leave every activity entry as it was, the order of
\* its products included, so that narrateTile returns for the tile the lines it
\* returned before the inspector's calls
C15_InspectorOnlyReads ==
    /\ \A i \in Entries : Products(pool[i]) = Products(InitialPool[i])
    /\ (lines # <<>> /\ prevLines # <<>>) => lines = prevLines

\* what C16 says of the state after a refresh of a focused tile
ShownWithinThreshold ==
    (focus # <<>> /\ WorldTile(world, focus) # NoTile) =>
        LET tl == objs[WorldTile(world, focus)]
        IN \A f \in DOMAIN StatThreshold : Abs(shown[f] - tl[f]) <= StatThreshold[f]

\* C16: after every refresh of a focused tile each value shown in the stats panel
\* is within the field's redraw threshold of the tile's current value
C16_ShownTracksTile ==
    [][Refresh => ShownWithinThreshold']_vars

\* C17: the summary of a tile whose history recordSubscribedHistories wrote holds
\* no pH trend, no gas trend and no pH or gas because-clause
C17_NoPHOrGasTrend ==
    lines # <<>> =>
        \A fragment \in {"becoming more basic", "becoming more acidic", "neutralizing",
                          "gas building", "gas dissipating",
                          "pH increasing because ", "pH decreasing because ",
                          "gas increasing because "} :
            ~SummaryHas(fragment)

\* a narrated tile that heated up and built pressure while its pH and its gas
\* changed between the samples
C17_Witness ==
    /\ lines # <<>>
    /\ SummaryHas(" (heating up)")
    /\ SummaryHas("pressure building")
    /\ Len(tile.history) >= 2
    /\ tile.pH # PlainTile.pH
    /\ tile.gas # <<>>

====
